---- MODULE Spec2Model ----
(***************************************************************************)
(* Offline-first task synchronisation: TaskService (task rows plus the     *)
(* sync_queue write-ahead log) and SyncService (one sync cycle: probe,     *)
(* drain, group, batch, transmit, settle, retry / dead-letter).            *)
(*                                                                         *)
(* Granularity: one step per store call (db.run / db.get / db.all) or      *)
(* network call (axios).  The JavaScript that runs between two awaits is   *)
(* part of the step of the earlier await, so a `new Date()` taken before a *)
(* store call is held in the caller's local state until that call runs.    *)
(***************************************************************************)
EXTENDS Integers, Sequences, FiniteSets, TLC

(* ---------------------------- bounds ---------------------------------- *)
MaxTasks == 2      \* task ids (uuid) that createTask can hand out
MaxItems == 2      \* sync_queue ids (uuid) that addToSyncQueue can hand out
MaxTime  == 2      \* last millisecond of the wall clock (first is 1)
MaxBatch == 2      \* largest configured SYNC_BATCH_SIZE
MaxRows  == 3      \* most sync_queue rows of a drained queue given to the batching
MaxEntries == 2    \* most entries in processed_items of one batch response
MaxDirect == 1     \* most direct calls of SyncService.addToSyncQueue

(* ------------------------ program constants --------------------------- *)
MAX_RETRIES == 3

(* ----------------------------- values --------------------------------- *)
TaskName(n) == <<"t1", "t2", "t3", "t4">>[n]
TaskIds     == {TaskName(n) : n \in 1..MaxTasks}
TaskOrd(t)  == CHOOSE n \in 1..MaxTasks : TaskName(n) = t  \* string order of the ids
ItemIds     == 1..MaxItems
Times       == 1..MaxTime
Slots       == {1}               \* call frames of TaskService: one call at a time
BatchSizes  == 1..MaxBatch
Absent      == "absent"          \* undefined / NULL
ServerIds   == {"s1", ""}     \* processedItem.server_id, when there is one
ErrInputs   == {"e1", "", Absent}  \* processedItem.error: a text, '', or none
UnknownErr  == "Unknown sync error"
TransportErr == "timeout"
StoreErr    == "SQLITE_ERROR"    \* message of a rejected db.run / db.all

VARIABLES
    tasks,      \* table tasks: task id -> row
    queue,      \* table sync_queue: set of rows
    dlq,        \* table dead_letter_queue: set of rows
    clock,      \* wall clock in milliseconds (Date)
    usedItems,  \* queue ids handed out so far
    calls,      \* TaskService calls in flight: slot -> frame
    sy,         \* the SyncService.sync() call in flight
    result,     \* SyncResult of the sync() call
    batchSize,  \* SyncService.BATCH_SIZE
    acked,      \* queue ids the server has answered success, or conflict with
                \* resolved_data, for
    sent,       \* queue ids transmitted in a batch request, this cycle
    parked,     \* a second sync() call in flight: its frame, result and sent
    fin,        \* input of the pure function under check
    fout        \* its output; in the other specifications, what the step just
                \* taken returned to the caller of a TaskService method

vars == <<tasks, queue, dlq, clock, usedItems, calls, sy, result, batchSize,
          acked, sent, parked, fin, fout>>

(* `new Date()`: the clock may have advanced since the last reading. *)
Now == {clock} \cup (IF clock < MaxTime THEN {clock + 1} ELSE {})

(* ------------------- TaskService (part_000 5-181) --------------------- *)

(* Booleans are stored as 0 / 1 (x ? 1 : 0). *)
Bit(b) == IF b THEN 1 ELSE 0

(* mapRowToTask: the row as a Task object, Boolean(row.completed) and
   Boolean(row.is_deleted); a NULL server_id or last_synced_at stays absent. *)
mapRowToTask(row) ==
    [ row EXCEPT !.completed = (@ # 0), !.is_deleted = (@ # 0) ]

(* Partial<Task> inputs of createTask / updateTask, as the routes build them:
   POST /tasks passes description: undefined when the body has none. *)
CreateInputs == { [title |-> "a", description |-> Absent, completed |-> FALSE] }
UpdateInputs == { [title |-> "b"] }

(* The values JavaScript takes for false in `x || y` and `if (x)`: undefined
   and null (Absent), '', false and 0.  The test is on the printed value, so
   that it is defined for a value of any type. *)
Falsy(v) == ToString(v) \in { ToString(Absent), ToString(""), ToString(FALSE), ToString(0) }

Truthy(v) == ~Falsy(v)

(* d.f || dflt: the default stands for a missing key and for every falsy value
   of the field. *)
Or(d, f, dflt) == IF f \in DOMAIN d /\ Truthy(d[f]) THEN d[f] ELSE dflt

(* const task: Task = {...} in createTask. *)
NewTask(id, taskData, now) ==
    [ id |-> id,
      title |-> Or(taskData, "title", ""),
      description |-> Or(taskData, "description", ""),
      completed |-> Or(taskData, "completed", FALSE),
      created_at |-> now, updated_at |-> now,
      is_deleted |-> FALSE, sync_status |-> "pending",
      server_id |-> Absent, last_synced_at |-> 0 ]

(* {...existingTask, ...updates, id, updated_at, sync_status} in updateTask:
   every key of updates goes into the object, whatever the key is; id,
   updated_at and sync_status are set after the spread. *)
UpdatedTask(existing, updates, now) ==
    [ f \in DOMAIN existing \cup DOMAIN updates |->
        IF f = "id" THEN existing.id
        ELSE IF f = "updated_at" THEN now
        ELSE IF f = "sync_status" THEN "pending"
        ELSE IF f \in DOMAIN updates THEN updates[f]
        ELSE existing[f] ]

(* {...existingTask, is_deleted: true, updated_at, sync_status} in deleteTask. *)
DeletedTask(existing, now) ==
    [ existing EXCEPT !.is_deleted = TRUE, !.updated_at = now,
                      !.sync_status = "pending" ]

(* addToSyncQueue recording every intent as an update. *)
NewQueueItem_AlwaysUpdate(queueId, taskId, operation, data, now) ==
    [ id |-> queueId, task_id |-> taskId, operation |-> "update", data |-> data,
      created_at |-> now, retry_count |-> 0, error_message |-> Absent ]

(* The row addToSyncQueue inserts. *)
NewQueueItem(queueId, taskId, operation, data, now) ==
    [ id |-> queueId, task_id |-> taskId, operation |-> operation, data |-> data,
      created_at |-> now, retry_count |-> 0, error_message |-> Absent ]

(* The SELECT of getTask without its is_deleted test. *)
LiveRow_IgnoresDeleted(id) == id \in DOMAIN tasks

(* SELECT * FROM tasks WHERE id = ? AND is_deleted = 0 *)
LiveRow(id) == id \in DOMAIN tasks /\ tasks[id].is_deleted = 0

(* getTask: the task of the live row, or null. *)
Null == [ null |-> TRUE ]

getTask(id) == IF LiveRow(id) THEN mapRowToTask(tasks[id]) ELSE Null

(* The rows of a SELECT in every order the store may return them. *)
Orders(rows) ==
    { s \in [ 1..Cardinality(rows) -> rows ] :
        \A i, j \in DOMAIN s : i < j => s[i] # s[j] }

(* getAllTasks: WHERE is_deleted = 0 ORDER BY created_at DESC; rows with equal
   keys come in any order. *)
getAllTasks ==
    { s \in Orders({ mapRowToTask(tasks[id]) : id \in { t \in DOMAIN tasks : LiveRow(t) } }) :
        \A i, j \in DOMAIN s : i < j => s[i].created_at >= s[j].created_at }

(* getTasksNeedingSync: WHERE sync_status IN ('pending', 'error')
   ORDER BY updated_at ASC *)
getTasksNeedingSync ==
    { s \in Orders({ mapRowToTask(tasks[id]) :
                       id \in { t \in DOMAIN tasks :
                                  tasks[t].sync_status \in {"pending", "error"} } }) :
        \A i, j \in DOMAIN s : i < j => s[i].updated_at <= s[j].updated_at }

IdleFrame ==
    [ op |-> "none", pc |-> "idle", id |-> "", now |-> 0, data |-> [title |-> ""],
      item |-> 0, changed |-> FALSE ]

(* A step that returns nothing to a TaskService caller. *)
NoReturn == fout' = << >>

(* The step returns value from the call op(id): "task" (the task object),
   "null", "true" or "false". *)
Return(op, id, value) == fout' = << [ op |-> op, id |-> id, value |-> value ] >>

(* A returned sync() hands its result to its caller before the event loop
   runs anything else. *)
Yield == sy.pc # "done"

(* uuidv4() for a task: any id not handed out yet; the string order of the ids
   has nothing to do with the order in which they are handed out. *)
FreshTaskIds ==
    TaskIds \ (DOMAIN tasks \cup
                { calls[d].id : d \in { e \in DOMAIN calls : calls[e].op = "create" } })

(* createTask up to its first await: id and now are taken, the INSERT INTO
   tasks is submitted. *)
CreateCall(c) ==
    /\ Yield
    /\ calls[c].pc = "idle"
    /\ \E id \in FreshTaskIds, taskData \in CreateInputs, now \in Now :
         /\ clock' = now
         /\ calls' = [calls EXCEPT ![c] =
                [ op |-> "create", pc |-> "row", id |-> id, now |-> now,
                  data |-> NewTask(id, taskData, now), item |-> 0,
                  changed |-> FALSE ]]
    /\ UNCHANGED <<tasks, queue, dlq, usedItems, sy, result, batchSize, acked,
                   sent, fin, parked>>
    /\ NoReturn

(* updateTask(id, updates) / deleteTask(id): getTask runs.  No live row: the
   call returns null / false.  Otherwise now is taken, the new snapshot is
   built and the UPDATE is submitted. *)
GetTaskStep(c, op, id, updates) ==
    /\ Yield
    /\ calls[c].pc = "idle"
    /\ IF ~LiveRow(id)
       THEN /\ UNCHANGED <<calls, clock>>
            /\ Return(op, id, IF op = "update" THEN "null" ELSE "false")
       ELSE \E now \in Now :
            /\ clock' = now
            /\ calls' = [calls EXCEPT ![c] =
                 [ op |-> op, pc |-> "row", id |-> id, now |-> now, item |-> 0,
                   changed |-> FALSE,
                   data |-> IF op = "update"
                            THEN UpdatedTask(mapRowToTask(tasks[id]), updates, now)
                            ELSE DeletedTask(mapRowToTask(tasks[id]), now) ]]
            /\ NoReturn
    /\ UNCHANGED <<tasks, queue, dlq, usedItems, sy, result, batchSize, acked,
                   sent, fin, parked>>

UpdateCall(c) ==
    \E id \in TaskIds, updates \in UpdateInputs : GetTaskStep(c, "update", id, updates)

DeleteCall(c) ==
    \E id \in TaskIds : GetTaskStep(c, "delete", id, [title |-> ""])

(* The statement on tasks runs: INSERT (create) or UPDATE ... WHERE id = ? AND
   is_deleted = 0 (update, delete).  Then addToSyncQueue takes its queue id and
   its own now and submits the INSERT INTO sync_queue. *)
RowWrite(f) ==
    CASE f.op = "create" ->
           tasks @@ (f.id :> [ f.data EXCEPT !.completed = Bit(@), !.is_deleted = Bit(@) ])
      [] f.op = "update" ->
           IF LiveRow(f.id)
           THEN [tasks EXCEPT ![f.id] =
                    [ @ EXCEPT !.title = f.data.title, !.description = f.data.description,
                               !.completed = Bit(f.data.completed), !.updated_at = f.now,
                               !.sync_status = f.data.sync_status ]]
           ELSE tasks
      [] f.op = "delete" ->
           IF LiveRow(f.id)
           THEN [tasks EXCEPT ![f.id] =
                    [ @ EXCEPT !.is_deleted = 1, !.updated_at = f.now,
                               !.sync_status = "pending" ]]
           ELSE tasks

(* Whether the statement of the call matches a row (this.changes > 0). *)
RowMatched(f) == f.op = "create" \/ LiveRow(f.id)

(* uuidv4() for a queue row.  The ids are only ever compared for equality, so
   they are handed out in increasing order. *)
FreshItemIds == { n \in ItemIds \ usedItems : \A k \in ItemIds \ usedItems : n <= k }

RowStep(c) ==
    /\ Yield
    /\ calls[c].pc = "row"
    /\ \E queueId \in FreshItemIds, now \in Now :
         /\ tasks' = RowWrite(calls[c])
         /\ clock' = now
         /\ usedItems' = usedItems \cup {queueId}
         /\ calls' = [calls EXCEPT ![c] = [ @ EXCEPT !.pc = "enq", !.now = now,
                                                     !.item = queueId,
                                                     !.changed = RowMatched(calls[c]) ]]
    /\ UNCHANGED <<queue, dlq, sy, result, batchSize, acked, sent, fin, parked>>
    /\ NoReturn

(* The INSERT INTO sync_queue runs and the call returns (the task, or true). *)
EnqueueStep(c) ==
    /\ Yield
    /\ calls[c].pc = "enq"
    /\ queue' = queue \cup
         { NewQueueItem(calls[c].item, calls[c].id, calls[c].op, calls[c].data,
                        calls[c].now) }
    /\ calls' = [calls EXCEPT ![c] = IdleFrame]
    /\ Return(calls[c].op, calls[c].id, IF calls[c].op = "delete" THEN "true" ELSE "task")
    /\ UNCHANGED <<tasks, dlq, clock, usedItems, sy, result, batchSize, acked,
                   sent, fin, parked>>

(* ------------------- SyncService (part_000 182-541) ------------------- *)

Range(s) == { s[i] : i \in DOMAIN s }

(* getSyncQueueItems: SELECT * FROM sync_queue ORDER BY task_id, created_at ASC.
   Rows that agree on both keys come in an order the store chooses. *)
RowBefore(a, b) ==
    \/ TaskOrd(a.task_id) < TaskOrd(b.task_id)
    \/ a.task_id = b.task_id /\ a.created_at <= b.created_at

getSyncQueueItems(q) ==
    { s \in [1..Cardinality(q) -> q] :
        /\ \A i, j \in DOMAIN s : i < j => s[i] # s[j] /\ RowBefore(s[i], s[j]) }

(* The comparator with its operands swapped: newest first. *)
RECURSIVE InsertByTime_Descending(_, _)
InsertByTime_Descending(sorted, x) ==
    IF sorted = <<>> THEN <<x>>
    ELSE IF sorted[Len(sorted)].created_at >= x.created_at
         THEN Append(sorted, x)
         ELSE Append(InsertByTime_Descending(SubSeq(sorted, 1, Len(sorted) - 1), x),
                     sorted[Len(sorted)])

(* Array.prototype.sort((a, b) => a.created_at - b.created_at): stable. *)
RECURSIVE InsertByTime(_, _)
InsertByTime(sorted, x) ==
    IF sorted = <<>> THEN <<x>>
    ELSE IF sorted[Len(sorted)].created_at <= x.created_at
         THEN Append(sorted, x)
         ELSE Append(InsertByTime(SubSeq(sorted, 1, Len(sorted) - 1), x),
                     sorted[Len(sorted)])

RECURSIVE SortByTime(_)
SortByTime(s) ==
    IF s = <<>> THEN <<>>
    ELSE InsertByTime(SortByTime(SubSeq(s, 1, Len(s) - 1)), s[Len(s)])

(* Keys of the Map in insertion order: task ids by first appearance. *)
RECURSIVE FirstSeen(_)
FirstSeen(items) ==
    IF items = <<>> THEN <<>>
    ELSE LET rest == FirstSeen(SubSeq(items, 1, Len(items) - 1))
             t == items[Len(items)].task_id
         IN IF t \in Range(rest) THEN rest ELSE Append(rest, t)

SameTask(items, t) == SelectSeq(items, LAMBDA x : x.task_id = t)

(* groupItemsByTaskChronologically: the Map as a sequence of its values. *)
groupItemsByTaskChronologically(items) ==
    [ k \in DOMAIN FirstSeen(items) |->
        SortByTime(SameTask(items, FirstSeen(items)[k])) ]

(* createBatches: walk the groups in Map order; a full batch is pushed before
   the next item is appended; a non-empty last batch is pushed at the end. *)
RECURSIVE Flatten(_)
Flatten(groups) ==
    IF groups = <<>> THEN <<>>
    ELSE Flatten(SubSeq(groups, 1, Len(groups) - 1)) \o groups[Len(groups)]

(* The fullness test of createBatches as currentBatch.length > BATCH_SIZE. *)
RECURSIVE Pack_Late(_, _, _, _)
Pack_Late(items, batches, currentBatch, size) ==
    IF items = <<>>
    THEN IF Len(currentBatch) > 0 THEN Append(batches, currentBatch) ELSE batches
    ELSE IF Len(currentBatch) > size
         THEN Pack_Late(Tail(items), Append(batches, currentBatch), <<Head(items)>>, size)
         ELSE Pack_Late(Tail(items), batches, Append(currentBatch, Head(items)), size)

RECURSIVE Pack(_, _, _, _)
Pack(items, batches, currentBatch, size) ==
    IF items = <<>>
    THEN IF Len(currentBatch) > 0 THEN Append(batches, currentBatch) ELSE batches
    ELSE IF Len(currentBatch) >= size
         THEN Pack(Tail(items), Append(batches, currentBatch), <<Head(items)>>, size)
         ELSE Pack(Tail(items), batches, Append(currentBatch, Head(items)), size)

createBatches(itemsByTask, size) == Pack(Flatten(itemsByTask), <<>>, <<>>, size)

(* resolveConflict letting the local task win a tie. *)
resolveConflict_LocalWinsTie(localTask, serverTask) ==
    IF localTask.updated_at >= serverTask.updated_at THEN localTask ELSE serverTask

(* resolveConflict: last writer wins on updated_at, the server wins a tie. *)
resolveConflict(localTask, serverTask) ==
    IF localTask.updated_at > serverTask.updated_at THEN localTask
    ELSE IF serverTask.updated_at > localTask.updated_at THEN serverTask
    ELSE serverTask

(* The bound test off by one: newRetryCount > MAX_RETRIES. *)
Exhausted_OffByOne(item) == item.retry_count + 1 > MAX_RETRIES

(* handleSyncError: newRetryCount >= MAX_RETRIES. *)
Exhausted(item) == item.retry_count + 1 >= MAX_RETRIES

(* updateTaskSyncStatus that does not write the status 'error'. *)
updateTaskSyncStatus_SkipsError(taskId, status) ==
    IF taskId \in DOMAIN tasks /\ status # "error"
    THEN [tasks EXCEPT ![taskId].sync_status = status]
    ELSE tasks

(* updateTaskSyncStatus: UPDATE tasks SET sync_status = ? WHERE id = ? *)
updateTaskSyncStatus(taskId, status) ==
    IF taskId \in DOMAIN tasks
    THEN [tasks EXCEPT ![taskId].sync_status = status]
    ELSE tasks

(* The UPDATE of updateSyncStatus without its server_id column. *)
updateSyncStatusRow_NoServerId(taskId, status, serverData, now) ==
    IF taskId \in DOMAIN tasks
    THEN [tasks EXCEPT ![taskId] =
            [ @ EXCEPT !.sync_status = status, !.last_synced_at = now ]]
    ELSE tasks

(* updateSyncStatus, first statement: UPDATE tasks SET sync_status = ?,
   last_synced_at = ? [, server_id = ?] WHERE id = ?; if (serverData?.server_id)
   leaves out a server_id that is undefined, null or ''. *)
updateSyncStatusRow(taskId, status, serverData, now) ==
    IF taskId \in DOMAIN tasks
    THEN [tasks EXCEPT ![taskId] =
            [ @ EXCEPT !.sync_status = status, !.last_synced_at = now,
                       !.server_id = IF Truthy(serverData.server_id)
                                     THEN serverData.server_id ELSE @ ]]
    ELSE tasks

(* updateSyncStatus, second statement: DELETE FROM sync_queue WHERE task_id = ? *)
DeleteByTask(q, taskId) == { r \in q : r.task_id # taskId }

(* DELETE FROM sync_queue WHERE id = ? *)
DeleteById(q, id) == { r \in q : r.id # id }

(* The UPDATE of handleSyncError keyed by task_id instead of id. *)
BumpRetry_ByTask(q, item, message) ==
    { IF r.task_id = item.task_id
      THEN [ r EXCEPT !.retry_count = item.retry_count + 1, !.error_message = message ]
      ELSE r : r \in q }

(* UPDATE sync_queue SET retry_count = ?, error_message = ? WHERE id = ? *)
BumpRetry(q, item, message) ==
    { IF r.id = item.id
      THEN [ r EXCEPT !.retry_count = item.retry_count + 1, !.error_message = message ]
      ELSE r : r \in q }

(* moveToDeadLetterQueue: the row inserted into dead_letter_queue. *)
DeadLetter(item, errorMessage, now) ==
    [ id |-> item.id, task_id |-> item.task_id, operation |-> item.operation,
      data |-> item.data, created_at |-> item.created_at, failed_at |-> now,
      retry_count |-> item.retry_count, final_error_message |-> errorMessage ]

(* ----------------------- the sync() call ------------------------------- *)

NoTask == NewTask("", [title |-> ""], 0)

SyIdle ==
    [ pc |-> "idle", batches |-> <<>>, bi |-> 0, ii |-> 0, todo |-> <<>>, ti |-> 0,
      sub |-> 0, msg |-> Absent, win |-> NoTask, now |-> 0 ]

SyDone == [ SyIdle EXCEPT !.pc = "done" ]

NewResult == [ success |-> TRUE, synced_items |-> 0, failed_items |-> 0, errors |-> <<>> ]

ConnectionError ==
    [ task_id |-> "connection", operation |-> "connectivity_check",
      error |-> "Server is not reachable" ]

ItemError(item, message) ==
    [ task_id |-> item.task_id, operation |-> item.operation, error |-> message ]

(* Snapshots a conflict outcome can carry in resolved_data. *)
ServerSnaps(taskId) ==
    { [ id |-> taskId, title |-> "srv", description |-> "", completed |-> TRUE,
        created_at |-> 1, updated_at |-> t, is_deleted |-> FALSE,
        sync_status |-> "synced", server_id |-> "s1", last_synced_at |-> 0 ] :
      t \in Times }

(* The batch in work; the item the entry todo[ti] names (batch.find by
   client_id) and the branch sync() takes for the entry. *)
CurBatch == sy.batches[sy.bi]
CurItem  == CurBatch[sy.todo[sy.ti].k]
CurKind  == sy.todo[sy.ti].status

(* What follows the settling of todo[ti]: the next entry of the response, the
   next batch (processBatch starts by marking its first item), or the end of
   sync(), where success is set from the error list. *)
Advance(s, res) ==
    IF s.ti < Len(s.todo)
    THEN [ sy |-> [ s EXCEPT !.ti = @ + 1, !.sub = 1, !.msg = Absent, !.win = NoTask,
                             !.now = 0 ],
           result |-> res ]
    ELSE IF s.bi < Len(s.batches)
    THEN [ sy |-> [ s EXCEPT !.pc = "mark", !.bi = @ + 1, !.ii = 1, !.todo = <<>>,
                             !.ti = 0, !.sub = 0, !.msg = Absent, !.win = NoTask,
                             !.now = 0 ],
           result |-> res ]
    ELSE [ sy |-> SyDone,
           result |-> [ res EXCEPT !.success = (res.errors = <<>>) ] ]

(* Whether the handling of todo[ti] of frame s starts with `new Date()`:
   updateSyncStatus and moveToDeadLetterQueue take their `now` on entry, before
   their first store call. *)
ReadsClock(s) ==
    LET e == s.todo[s.ti]
    IN e.status \in {"success", "conflict"} \/ Exhausted(s.batches[s.bi][e.k])

(* The step leaves sync() in frame s with result res.  When s is at the start
   of an entry whose handling reads the clock, the reading is taken in this
   step and held in the frame until the store call that writes it. *)
Enter(s, res) ==
    /\ result' = res
    /\ IF s.pc = "settle" /\ s.sub = 1 /\ ReadsClock(s)
       THEN \E now \in Now : clock' = now /\ sy' = [ s EXCEPT !.now = now ]
       ELSE clock' = clock /\ sy' = s

(* No second sync() call in flight. *)
NoCycle == [ sy |-> SyIdle, result |-> NewResult, sent |-> {} ]

(* POST /sync (routes/sync.ts): the route sends its own probe first. *)
SyncCall ==
    /\ sy.pc = "idle"
    /\ sy' = [ sy EXCEPT !.pc = "route" ]
    /\ UNCHANGED <<tasks, queue, dlq, clock, usedItems, calls, result, batchSize,
                   acked, sent, fin, parked>>
    /\ NoReturn

(* A failed probe counted as a failed item. *)
Unreachable_CountsFailure(res) ==
    [ res EXCEPT !.success = FALSE, !.failed_items = @ + 1,
                 !.errors = Append(@, ConnectionError) ]

(* The SyncResult of a failed probe: in the 503 body of the route, and what
   sync() returns when its own probe fails. *)
Unreachable(res) ==
    [ res EXCEPT !.success = FALSE, !.errors = Append(@, ConnectionError) ]

(* The probe of the route fails: 503 with the connectivity result; sync() is
   not called. *)
RouteProbeFail ==
    /\ sy.pc = "route"
    /\ sy' = SyDone
    /\ result' = Unreachable(NewResult)
    /\ UNCHANGED <<tasks, queue, dlq, clock, usedItems, calls, batchSize, acked,
                   sent, fin, parked>>
    /\ NoReturn

(* The probe of the route succeeds: sync() is called, initialises its result
   and sends its own probe. *)
RouteProbeOk ==
    /\ sy.pc = "route"
    /\ sy' = [ sy EXCEPT !.pc = "probe" ]
    /\ result' = NewResult
    /\ UNCHANGED <<tasks, queue, dlq, clock, usedItems, calls, batchSize, acked,
                   sent, fin, parked>>
    /\ NoReturn

(* The caller takes the result (the route sends its response). *)
SyncReturn ==
    /\ sy.pc = "done"
    /\ sy' = SyIdle
    /\ result' = NewResult
    /\ sent' = {}
    /\ UNCHANGED <<tasks, queue, dlq, clock, usedItems, calls, batchSize, acked,
                   fin, parked>>
    /\ NoReturn

(* checkConnectivity answers false: sync() returns the connectivity error. *)
ProbeFail ==
    /\ sy.pc = "probe"
    /\ sy' = SyDone
    /\ result' = Unreachable(result)
    /\ UNCHANGED <<tasks, queue, dlq, clock, usedItems, calls, batchSize, acked,
                   sent, fin, parked>>
    /\ NoReturn

(* checkConnectivity answers true: getSyncQueueItems is submitted. *)
ProbeOk ==
    /\ sy.pc = "probe"
    /\ sy' = [ sy EXCEPT !.pc = "drain" ]
    /\ UNCHANGED <<tasks, queue, dlq, clock, usedItems, calls, result, batchSize,
                   acked, sent, fin, parked>>
    /\ NoReturn

(* The drain runs.  Empty queue: sync() returns.  Otherwise the items are
   grouped and batched and processBatch of the first batch starts. *)
DrainStep ==
    /\ sy.pc = "drain"
    /\ \E queueItems \in getSyncQueueItems(queue) :
         sy' = IF Len(queueItems) = 0 THEN SyDone
               ELSE [ sy EXCEPT
                        !.pc = "mark", !.bi = 1, !.ii = 1,
                        !.batches = createBatches(
                            groupItemsByTaskChronologically(queueItems), batchSize) ]
    /\ UNCHANGED <<tasks, queue, dlq, clock, usedItems, calls, result, batchSize,
                   acked, sent, fin, parked>>
    /\ NoReturn

(* processBatch: updateTaskSyncStatus(item.task_id, 'in-progress') for the
   ii-th item; after the last one the batch request is posted. *)
MarkStep ==
    /\ sy.pc = "mark"
    /\ tasks' = updateTaskSyncStatus(CurBatch[sy.ii].task_id, "in-progress")
    /\ IF sy.ii < Len(CurBatch)
       THEN /\ sy' = [ sy EXCEPT !.ii = @ + 1 ]
            /\ sent' = sent
       ELSE /\ sy' = [ sy EXCEPT !.pc = "post", !.ii = 0 ]
            /\ sent' = sent \cup { x.id : x \in Range(CurBatch) }
    /\ UNCHANGED <<queue, dlq, clock, usedItems, calls, result, batchSize, acked,
                   fin, parked>>
    /\ NoReturn

(* processed_items of a batch response: a list of entries in the order the
   server chose.  An entry names an item of the batch by its position k (0: a
   client_id that is not in the batch), any number of times or not at all; it
   has a status and may carry resolved_data.  The server_id, snapshot or error
   text of an entry is read when the entry is handled. *)
Statuses == {"success", "conflict", "error"}

Entries(batch) ==
    { e \in [ k : 0..Len(batch), status : Statuses, resolved : BOOLEAN ] :
        e.resolved => e.status = "conflict" }

Responses(batch) == UNION { [ 1..n -> Entries(batch) ] : n \in 0..MaxEntries }

(* The branch sync() takes for an entry: success; conflict when the entry has
   resolved_data; the error branch for everything else. *)
Branch(e) ==
    IF e.status = "success" THEN "success"
    ELSE IF e.status = "conflict" /\ e.resolved THEN "conflict"
    ELSE "error"

(* for (const processedItem of batchResponse.processed_items): the entries in
   response order, without those that name no item of the batch (continue),
   each with its branch. *)
RECURSIVE Processed(_)
Processed(resp) ==
    IF resp = <<>> THEN <<>>
    ELSE LET e == resp[Len(resp)]
             rest == Processed(SubSeq(resp, 1, Len(resp) - 1))
         IN IF e.k = 0 THEN rest
            ELSE Append(rest, [ k |-> e.k, status |-> Branch(e) ])

(* The request is answered. *)
PostOk ==
    /\ sy.pc = "post"
    /\ \E todo \in { Processed(resp) : resp \in Responses(CurBatch) } :
         /\ acked' = acked \cup { CurBatch[todo[i].k].id :
                                    i \in { j \in DOMAIN todo :
                                              todo[j].status \in {"success", "conflict"} } }
         /\ IF todo = <<>>
            THEN LET next == Advance(sy, result) IN Enter(next.sy, next.result)
            ELSE Enter([ sy EXCEPT !.pc = "settle", !.todo = todo, !.ti = 1, !.sub = 1 ],
                       result)
    /\ UNCHANGED <<tasks, queue, dlq, usedItems, calls, batchSize, sent, fin, parked>>
    /\ NoReturn

(* axios.post rejects (transport error or the 30 s timeout): processBatch
   starts resetting the tasks of the batch to 'error'. *)
PostFail ==
    /\ sy.pc = "post"
    /\ sy' = [ sy EXCEPT !.pc = "reset", !.ii = 1 ]
    /\ UNCHANGED <<tasks, queue, dlq, clock, usedItems, calls, result, batchSize,
                   acked, sent, fin, parked>>
    /\ NoReturn

(* processBatch catch: updateTaskSyncStatus(item.task_id, 'error'); after the
   last one the error is rethrown and the catch of sync() runs handleSyncError
   for every item of the batch. *)
ResetStep ==
    /\ sy.pc = "reset"
    /\ tasks' = updateTaskSyncStatus(CurBatch[sy.ii].task_id, "error")
    /\ Enter(IF sy.ii < Len(CurBatch)
             THEN [ sy EXCEPT !.ii = @ + 1 ]
             ELSE [ sy EXCEPT !.pc = "settle", !.ii = 0, !.ti = 1, !.sub = 1,
                               !.todo = [ k \in 1..Len(CurBatch) |->
                                            [ k |-> k, status |-> "transport" ] ] ],
             result)
    /\ UNCHANGED <<queue, dlq, usedItems, calls, batchSize, acked, sent, fin, parked>>
    /\ NoReturn

(* Outcome success or conflict: updateSyncStatus(task_id, 'synced', data), first
   statement.  data is {server_id} of the entry, or the resolved task.  The
   last_synced_at written is the reading taken when updateSyncStatus was
   entered. *)
ServerData(kind, item) ==
    IF kind = "success"
    THEN { [ NoTask EXCEPT !.server_id = sid ] : sid \in ServerIds \cup {Absent} }
    ELSE { resolveConflict(item.data, snap) : snap \in ServerSnaps(item.task_id) }

SyncedRowStep ==
    /\ sy.pc = "settle" /\ sy.sub = 1
    /\ CurKind \in {"success", "conflict"}
    /\ \E serverData \in ServerData(CurKind, CurItem) :
         /\ tasks' = updateSyncStatusRow(CurItem.task_id, "synced", serverData, sy.now)
         /\ sy' = [ sy EXCEPT !.sub = 2, !.win = serverData ]
    /\ UNCHANGED <<queue, dlq, clock, usedItems, calls, result, batchSize, acked,
                   sent, fin, parked>>
    /\ NoReturn

(* updateSyncStatus, second statement; then result.synced_items++. *)
SyncedDeleteStep ==
    /\ sy.pc = "settle" /\ sy.sub = 2
    /\ CurKind \in {"success", "conflict"}
    /\ queue' = DeleteByTask(queue, CurItem.task_id)
    /\ LET next == Advance(sy, [ result EXCEPT !.synced_items = @ + 1 ])
       IN Enter(next.sy, next.result)
    /\ UNCHANGED <<tasks, dlq, usedItems, calls, batchSize, acked, sent, fin, parked>>
    /\ NoReturn

(* Outcomes handled by handleSyncError: an error entry of the response, or the
   catch of the batch in sync(), entered with the error of the request
   ("transport") or with the error of a store call ("store"). *)
CatchKinds == {"transport", "store"}
FailKinds  == {"error"} \cup CatchKinds

(* The message handleSyncError gets: processedItem.error || 'Unknown sync
   error' for an error entry, error.message in the catch. *)
Messages(kind) ==
    CASE kind = "transport" -> {TransportErr}
      [] kind = "store" -> {StoreErr}
      [] OTHER -> { IF Truthy(e) THEN e ELSE UnknownErr : e \in ErrInputs }

(* handleSyncError below the bound, first statement: bump the queue row. *)
ErrBumpStep ==
    /\ sy.pc = "settle" /\ sy.sub = 1
    /\ CurKind \in FailKinds
    /\ ~Exhausted(CurItem)
    /\ \E message \in Messages(CurKind) :
         /\ queue' = BumpRetry(queue, CurItem, message)
         /\ sy' = [ sy EXCEPT !.sub = 2, !.msg = message ]
    /\ UNCHANGED <<tasks, dlq, clock, usedItems, calls, result, batchSize, acked,
                   sent, fin, parked>>
    /\ NoReturn

(* handleSyncError below the bound, second statement: the task goes to 'error';
   then result.failed_items++ and the error is recorded. *)
Failed(res, item, message) ==
    [ res EXCEPT !.failed_items = @ + 1,
                 !.errors = Append(@, ItemError(item, message)) ]

ErrStatusStep ==
    /\ sy.pc = "settle" /\ sy.sub = 2
    /\ CurKind \in FailKinds
    /\ ~Exhausted(CurItem)
    /\ tasks' = updateTaskSyncStatus(CurItem.task_id, "error")
    /\ LET next == Advance(sy, Failed(result, CurItem, sy.msg))
       IN Enter(next.sy, next.result)
    /\ UNCHANGED <<queue, dlq, usedItems, calls, batchSize, acked, sent, fin, parked>>
    /\ NoReturn

(* handleSyncError at the bound: moveToDeadLetterQueue (failed_at is the
   reading taken when it was entered), ... *)
DeadLetterStep ==
    /\ sy.pc = "settle" /\ sy.sub = 1
    /\ CurKind \in FailKinds
    /\ Exhausted(CurItem)
    /\ \E message \in Messages(CurKind) :
         /\ dlq' = dlq \cup { DeadLetter(CurItem, message, sy.now) }
         /\ sy' = [ sy EXCEPT !.sub = 2, !.msg = message ]
    /\ UNCHANGED <<tasks, queue, clock, usedItems, calls, result, batchSize, acked,
                   sent, fin, parked>>
    /\ NoReturn

(* ... updateTaskSyncStatus(task_id, 'failed'), ... *)
FailedStatusStep ==
    /\ sy.pc = "settle" /\ sy.sub = 2
    /\ CurKind \in FailKinds
    /\ Exhausted(CurItem)
    /\ tasks' = updateTaskSyncStatus(CurItem.task_id, "failed")
    /\ sy' = [ sy EXCEPT !.sub = 3 ]
    /\ UNCHANGED <<queue, dlq, clock, usedItems, calls, result, batchSize, acked,
                   sent, fin, parked>>
    /\ NoReturn

(* ... DELETE FROM sync_queue WHERE id = ?; then the error is recorded. *)
DeadDeleteStep ==
    /\ sy.pc = "settle" /\ sy.sub = 3
    /\ queue' = DeleteById(queue, CurItem.id)
    /\ LET next == Advance(sy, Failed(result, CurItem, sy.msg))
       IN Enter(next.sy, next.result)
    /\ UNCHANGED <<tasks, dlq, usedItems, calls, batchSize, acked, sent, fin, parked>>
    /\ NoReturn

(* ------------------------ store failures ------------------------------ *)

SyncServiceError(message) ==
    [ task_id |-> "sync_service", operation |-> "sync", error |-> message ]

(* The outer catch recording the error without clearing success. *)
Fatal_KeepsSuccess(res, message) ==
    [ res EXCEPT !.errors = Append(@, SyncServiceError(message)) ]

(* The outer catch of sync(). *)
Fatal(res, message) ==
    [ res EXCEPT !.success = FALSE, !.errors = Append(@, SyncServiceError(message)) ]

(* getSyncQueueItems rejects: the outer catch of sync() records the error and
   sync() returns. *)
StoreFailDrain ==
    /\ sy.pc = "drain"
    /\ sy' = SyDone
    /\ result' = Fatal(result, StoreErr)
    /\ UNCHANGED <<tasks, queue, dlq, clock, usedItems, calls, batchSize, acked,
                   sent, fin, parked>>
    /\ NoReturn

(* A store call rejects inside the try of the batch: in processBatch (marking
   the tasks, or resetting them after a failed request) or while an entry of
   the response is settled.  The statement has no effect; the catch of the
   batch runs handleSyncError for every item of the batch. *)
InBatchTry ==
    \/ sy.pc \in {"mark", "reset"}
    \/ sy.pc = "settle" /\ CurKind \notin CatchKinds

StoreFailBatch ==
    /\ InBatchTry
    /\ Enter([ sy EXCEPT !.pc = "settle", !.ii = 0, !.ti = 1, !.sub = 1,
                         !.msg = Absent, !.win = NoTask, !.now = 0,
                         !.todo = [ k \in 1..Len(CurBatch) |->
                                      [ k |-> k, status |-> "store" ] ] ],
             result)
    /\ UNCHANGED <<tasks, queue, dlq, usedItems, calls, batchSize, acked, sent, fin, parked>>
    /\ NoReturn

(* A store call of handleSyncError rejects inside the catch of the batch: the
   outer catch of sync() records the error and sync() returns. *)
StoreFailCatch ==
    /\ sy.pc = "settle" /\ CurKind \in CatchKinds
    /\ sy' = SyDone
    /\ result' = Fatal(result, StoreErr)
    /\ UNCHANGED <<tasks, queue, dlq, clock, usedItems, calls, batchSize, acked,
                   sent, fin, parked>>
    /\ NoReturn

(* ------------------- calls the routes do not serialise ----------------- *)

(* Neither the route nor sync() keeps a second POST /sync from starting while a
   cycle is in flight: the two calls then take their steps in any order.  The
   event loop turns to the other call: its frame, result and sent set are the
   ones the sync() steps work on from here, and those of the call that was
   running wait.  A call that has returned answers its caller first. *)
SyncSwitch ==
    /\ Yield
    /\ <<sy, result, sent>> # <<parked.sy, parked.result, parked.sent>>
    /\ parked' = [ sy |-> sy, result |-> result, sent |-> sent ]
    /\ sy' = parked.sy
    /\ result' = parked.result
    /\ sent' = parked.sent
    /\ UNCHANGED <<tasks, queue, dlq, clock, usedItems, calls, batchSize, acked,
                   fin, fout>>

(* SyncService.addToSyncQueue(taskId, operation, data), a public method: the
   queue id and now are taken and the INSERT INTO sync_queue is submitted, for
   whatever task id and operation the caller names; the tasks table is neither
   read nor written. *)
DirectInputs == { [taskId |-> "t1", operation |-> "update"],
                  [taskId |-> "t2", operation |-> "create"] }

AddToSyncQueueCall(c) ==
    /\ Yield
    /\ calls[c].pc = "idle"
    /\ \E queueId \in FreshItemIds, args \in DirectInputs, taskData \in CreateInputs,
          now \in Now :
         /\ clock' = now
         /\ usedItems' = usedItems \cup {queueId}
         /\ calls' = [calls EXCEPT ![c] =
                [ op |-> args.operation, pc |-> "put", id |-> args.taskId, now |-> now,
                  data |-> NewTask(args.taskId, taskData, now), item |-> queueId,
                  changed |-> FALSE ]]
    /\ UNCHANGED <<tasks, queue, dlq, sy, result, batchSize, acked, sent, fin, parked>>
    /\ NoReturn

(* The INSERT runs and the call returns (void). *)
AddToSyncQueueStep(c) ==
    /\ Yield
    /\ calls[c].pc = "put"
    /\ queue' = queue \cup
         { NewQueueItem(calls[c].item, calls[c].id, calls[c].op, calls[c].data,
                        calls[c].now) }
    /\ calls' = [calls EXCEPT ![c] = IdleFrame]
    /\ UNCHANGED <<tasks, dlq, clock, usedItems, sy, result, batchSize, acked,
                   sent, fin, parked>>
    /\ NoReturn

(* ------------------------- specification ------------------------------ *)

Init ==
    /\ tasks = << >>
    /\ queue = {}
    /\ dlq = {}
    /\ clock = 1
    /\ usedItems = {}
    /\ calls = [ c \in Slots |-> IdleFrame ]
    /\ sy = SyIdle
    /\ result = NewResult
    /\ batchSize \in BatchSizes
    /\ acked = {}
    /\ sent = {}
    /\ parked = NoCycle
    /\ fin = << >>
    /\ fout = << >>

(* Every step the program can take: the TaskService calls, the public
   SyncService.addToSyncQueue, up to two POST /sync in flight with their steps
   in any order, any response of the server, and store calls of sync() that
   reject. *)
Next ==
    \/ \E c \in DOMAIN calls : CreateCall(c)
    \/ \E c \in DOMAIN calls : UpdateCall(c)
    \/ \E c \in DOMAIN calls : DeleteCall(c)
    \/ \E c \in DOMAIN calls : RowStep(c)
    \/ \E c \in DOMAIN calls : EnqueueStep(c)
    \/ \E c \in DOMAIN calls : AddToSyncQueueCall(c)
    \/ \E c \in DOMAIN calls : AddToSyncQueueStep(c)
    \/ SyncSwitch
    \/ StoreFailDrain
    \/ StoreFailBatch
    \/ StoreFailCatch
    \/ SyncCall
    \/ SyncReturn
    \/ RouteProbeFail
    \/ RouteProbeOk
    \/ ProbeFail
    \/ ProbeOk
    \/ DrainStep
    \/ MarkStep
    \/ PostOk
    \/ PostFail
    \/ ResetStep
    \/ SyncedRowStep
    \/ SyncedDeleteStep
    \/ ErrBumpStep
    \/ ErrStatusStep
    \/ DeadLetterStep
    \/ FailedStatusStep
    \/ DeadDeleteStep

Spec == Init /\ [][Next]_vars

(* One POST /sync at a time (spec section 5: no guarantees for two cycles
   running concurrently), the queue filled by TaskService only, a store that
   does not reject, and a server that names no item of a batch twice in its
   response and gives every error entry its text.  Repository calls interleave with the cycle at every store and
   network call. *)
OncePerItem ==
    \A i, j \in DOMAIN sy'.todo : i # j => sy'.todo[i].k # sy'.todo[j].k

(* The entry handled by the failure handler carries its error text. *)
Worded == sy'.msg # UnknownErr

NextOnce ==
    \/ \E c \in DOMAIN calls : CreateCall(c)
    \/ \E c \in DOMAIN calls : UpdateCall(c)
    \/ \E c \in DOMAIN calls : DeleteCall(c)
    \/ \E c \in DOMAIN calls : RowStep(c)
    \/ \E c \in DOMAIN calls : EnqueueStep(c)
    \/ SyncCall
    \/ SyncReturn
    \/ RouteProbeFail
    \/ RouteProbeOk
    \/ ProbeFail
    \/ ProbeOk
    \/ DrainStep
    \/ MarkStep
    \/ PostOk /\ OncePerItem
    \/ PostFail
    \/ ResetStep
    \/ SyncedRowStep
    \/ SyncedDeleteStep
    \/ ErrBumpStep /\ Worded
    \/ ErrStatusStep
    \/ DeadLetterStep /\ Worded
    \/ FailedStatusStep
    \/ DeadDeleteStep

SpecOnce == Init /\ [][NextOnce]_vars

(* The steps of NextOnce with every call run to its end before the next one
   starts: repository calls and sync cycles one after the other; a response
   may name an item any number of times, and every error entry carries its
   text. *)
NoCall == \A c \in DOMAIN calls : calls[c].pc = "idle"
Alone(c) == sy.pc = "idle" /\ \A d \in DOMAIN calls \ {c} : calls[d].pc = "idle"

NextSeq ==
    \/ \E c \in DOMAIN calls : Alone(c) /\ CreateCall(c)
    \/ \E c \in DOMAIN calls : Alone(c) /\ UpdateCall(c)
    \/ \E c \in DOMAIN calls : Alone(c) /\ DeleteCall(c)
    \/ \E c \in DOMAIN calls : RowStep(c)
    \/ \E c \in DOMAIN calls : EnqueueStep(c)
    \/ NoCall /\ SyncCall
    \/ SyncReturn
    \/ RouteProbeFail
    \/ RouteProbeOk
    \/ ProbeFail
    \/ ProbeOk
    \/ DrainStep
    \/ MarkStep
    \/ PostOk
    \/ PostFail
    \/ ResetStep
    \/ SyncedRowStep
    \/ SyncedDeleteStep
    \/ ErrBumpStep /\ Worded
    \/ ErrStatusStep
    \/ DeadLetterStep /\ Worded
    \/ FailedStatusStep
    \/ DeadDeleteStep

SpecSeq == Init /\ [][NextSeq]_vars

(* The sequential steps, with store calls of sync() that may reject, against a
   server that names no item twice.  A cycle that met a rejected store call is
   followed to its return and no further: the store is out of order from then
   on. *)
StoreBroken ==
    sy.pc = "done" /\ \E i \in DOMAIN result.errors : result.errors[i].error = StoreErr

NextStore ==
    /\ ~StoreBroken
    /\ \/ NextSeq
       \/ StoreFailDrain
       \/ StoreFailBatch
       \/ StoreFailCatch
    /\ OncePerItem

SpecStore == Init /\ [][NextStore]_vars

(* Sync cycles that keep being run against a server that is reachable and
   answers every transmitted item once (or fails the whole request): the
   sequential steps without a failed probe and without a response that leaves
   an item out; an error entry comes with or without its text.  A repository call starts only while a queue id is left for it.  Every
   step but the start of a repository call is taken if it stays possible. *)
Answered ==
    /\ sy'.pc = "settle" /\ Len(sy'.todo) = Len(CurBatch)
    /\ { sy'.todo[i].k : i \in DOMAIN sy'.todo } = DOMAIN CurBatch

CallStart ==
    /\ FreshItemIds # {}
    /\ \E c \in DOMAIN calls :
          Alone(c) /\ (CreateCall(c) \/ UpdateCall(c) \/ DeleteCall(c))

Progress ==
    \/ \E c \in DOMAIN calls : RowStep(c)
    \/ \E c \in DOMAIN calls : EnqueueStep(c)
    \/ NoCall /\ SyncCall
    \/ SyncReturn
    \/ RouteProbeOk
    \/ ProbeOk
    \/ DrainStep
    \/ MarkStep
    \/ PostOk /\ Answered
    \/ PostFail
    \/ ResetStep
    \/ SyncedRowStep
    \/ SyncedDeleteStep
    \/ ErrBumpStep
    \/ ErrStatusStep
    \/ DeadLetterStep
    \/ FailedStatusStep
    \/ DeadDeleteStep

NextDrain == CallStart \/ Progress

SpecDrain == Init /\ [][NextDrain]_vars /\ WF_vars(Progress)

(* Task t1 as createTask and a sync cycle that got success with server_id s1
   leave it: the row of a synced task. *)
SyncedTask ==
    [ NewTask("t1", [title |-> "a"], 1) EXCEPT
        !.completed = 0, !.is_deleted = 0, !.sync_status = "synced",
        !.server_id = "s1", !.last_synced_at = 1 ]

(* SyncService driven without the serialisation the sequential steps assume:
   a second sync() call may be in flight, and the queue is filled through
   SyncService.addToSyncQueue, for a task that was created and synced before
   (t1) or for one that has no row.  The server is reachable and answers every
   transmitted item once (or fails the whole request). *)
InitOpen ==
    /\ tasks = ("t1" :> SyncedTask)
    /\ queue = {} /\ dlq = {} /\ clock = 1 /\ usedItems = {}
    /\ calls = [ c \in Slots |-> IdleFrame ]
    /\ sy = SyIdle /\ result = NewResult /\ batchSize \in BatchSizes
    /\ acked = {} /\ sent = {} /\ parked = NoCycle
    /\ fin = << >> /\ fout = << >>

DirectCall ==
    /\ Cardinality(usedItems) < MaxDirect
    /\ \E c \in DOMAIN calls : Alone(c) /\ AddToSyncQueueCall(c)

NextOpen ==
    \/ DirectCall
    \/ \E c \in DOMAIN calls : AddToSyncQueueStep(c)
    \/ SyncSwitch
    \/ NoCall /\ SyncCall
    \/ SyncReturn
    \/ RouteProbeOk
    \/ ProbeOk
    \/ DrainStep
    \/ MarkStep
    \/ PostOk /\ Answered
    \/ PostFail
    \/ ResetStep
    \/ SyncedRowStep
    \/ SyncedDeleteStep
    \/ ErrBumpStep
    \/ ErrStatusStep
    \/ DeadLetterStep
    \/ FailedStatusStep
    \/ DeadDeleteStep

SpecOpen == InitOpen /\ [][NextOpen]_vars

(* Drain, grouping and batching on their own: the sync_queue table is drawn at
   the start, its rows numbered by id; the first row is a create, the third a
   delete, the others updates. *)
OpOf(k) == IF k = 1 THEN "create" ELSE IF k = 3 THEN "delete" ELSE "update"

(* The table of n rows, row k with task_id f[k][1] and created_at f[k][2]. *)
QueueTable(n, f) ==
    { NewQueueItem(k, f[k][1], OpOf(k), NewTask(f[k][1], [title |-> "a"], 1), f[k][2]) :
        k \in 1..n }

InitBatch ==
    /\ tasks = << >> /\ queue = {} /\ dlq = {} /\ clock = 1 /\ usedItems = {}
    /\ calls = [ c \in Slots |-> IdleFrame ]
    /\ sy = SyIdle /\ result = NewResult
    /\ batchSize \in BatchSizes
    /\ acked = {} /\ sent = {} /\ parked = NoCycle
    /\ \E n \in 0..MaxRows :
         \E f \in [ 1..n -> TaskIds \X (1..MaxRows) ] : fin = << QueueTable(n, f) >>
    /\ fout = << >>

(* fout: the drained items and the batches made of them. *)
BatchStep ==
    /\ fout = << >>
    /\ \E queueItems \in getSyncQueueItems(fin[1]) :
         fout' = << queueItems,
                    createBatches(groupItemsByTaskChronologically(queueItems), batchSize) >>
    /\ UNCHANGED <<tasks, queue, dlq, clock, usedItems, calls, sy, result,
                   batchSize, acked, sent, fin, parked>>

SpecBatch == InitBatch /\ [][BatchStep]_vars

(* TaskService on its own with two calls in flight.  Task t1 was created and
   synced before; its queue row is gone. *)
RaceSlots == {1, 2}

InitRace ==
    /\ tasks = ("t1" :> SyncedTask)
    /\ queue = {} /\ dlq = {} /\ clock = 1 /\ usedItems = {}
    /\ calls = [ c \in RaceSlots |-> IdleFrame ]
    /\ sy = SyIdle /\ result = NewResult /\ batchSize = 1
    /\ acked = {} /\ sent = {} /\ parked = NoCycle
    /\ fin = << >> /\ fout = << >>

NextRace ==
    \/ \E c \in DOMAIN calls : CreateCall(c)
    \/ \E c \in DOMAIN calls : UpdateCall(c)
    \/ \E c \in DOMAIN calls : DeleteCall(c)
    \/ \E c \in DOMAIN calls : RowStep(c)
    \/ \E c \in DOMAIN calls : EnqueueStep(c)

SpecRace == InitRace /\ [][NextRace]_vars

(* resolveConflict on its own: the two snapshots are drawn at the start. *)
LocalSnaps ==
    { [ NewTask("t1", [title |-> ti, completed |-> co], 1) EXCEPT !.updated_at = u ] :
        ti \in {"a", "b"}, co \in BOOLEAN, u \in Times }

RemoteSnaps ==
    { [ snap EXCEPT !.title = ti, !.completed = co ] :
        snap \in ServerSnaps("t1"), ti \in {"a", "srv"}, co \in BOOLEAN }

InitResolve ==
    /\ tasks = << >> /\ queue = {} /\ dlq = {} /\ clock = 1 /\ usedItems = {}
    /\ calls = [ c \in Slots |-> IdleFrame ]
    /\ sy = SyIdle /\ result = NewResult /\ batchSize = 1
    /\ acked = {} /\ sent = {} /\ parked = NoCycle
    /\ fin \in LocalSnaps \X RemoteSnaps
    /\ fout = << >>

ResolveStep ==
    /\ fout = << >>
    /\ fout' = << resolveConflict(fin[1], fin[2]) >>
    /\ UNCHANGED <<tasks, queue, dlq, clock, usedItems, calls, sy, result,
                   batchSize, acked, sent, fin, parked>>

SpecResolve == InitResolve /\ [][ResolveStep]_vars

(* ----------------------------- properties ----------------------------- *)

QueueIds(q) == { r.id : r \in q }
ItemsOf(t)  == { r \in queue : r.task_id = t }
Quiescent   == sy.pc = "idle" /\ \A c \in DOMAIN calls : calls[c].pc = "idle"

(* C1: a createTask, updateTask or deleteTask call that gets past getTask
   returns in the step that appends exactly one new sync_queue row, with
   retry_count 0, the task's id and the call's operation; no earlier step of
   the call touches the queue. *)
C1_Durability ==
    [][ \A c \in DOMAIN calls :
          /\ (calls[c].pc # "idle" /\ calls'[c].pc = "idle") =>
                \E r \in queue' :
                    /\ r.id \notin QueueIds(queue)
                    /\ queue' = queue \cup {r}
                    /\ r.retry_count = 0
                    /\ r.task_id = calls[c].id
                    /\ r.operation = calls[c].op
          /\ (calls'[c] # calls[c] /\ calls'[c].pc # "idle") => queue' = queue
      ]_vars

C1_Witness ==
    /\ \A c \in DOMAIN calls : calls[c].pc = "idle"
    /\ \E r \in queue :
          /\ r.operation = "delete" /\ r.retry_count = 0
          /\ tasks[r.task_id].is_deleted = 1

(* C2: a sync_queue row leaves the queue only after the server answered
   success or conflict for that row, or after it was put in the dead-letter
   store. *)
C2_NoIntentLost ==
    [][ \A r \in queue :
          r.id \notin QueueIds(queue') =>
             r.id \in acked \/ r.id \in QueueIds(dlq) ]_vars

(* C3: with no call in flight, no task with sync_status synced has a
   sync_queue row. *)
C3_SyncedHasNoIntent ==
    Quiescent =>
       \A t \in DOMAIN tasks :
          tasks[t].sync_status = "synced" => ItemsOf(t) = {}

(* C4: with no call in flight, every live task with sync_status pending or
   error has a sync_queue row. *)
C4_PendingHasIntent ==
    Quiescent =>
       \A t \in DOMAIN tasks :
          (tasks[t].is_deleted = 0 /\ tasks[t].sync_status \in {"pending", "error"})
             => ItemsOf(t) # {}

(* C5: when the server answers success for an intent b, no intent a of the
   same task that was enqueued before b, in an earlier millisecond, and went
   out in another batch is waiting for a retry or dead-lettered without having
   been answered success or conflict. *)
Intent(x) == [ id |-> x.id, task_id |-> x.task_id, created_at |-> x.created_at ]

FailedIntents == { Intent(r) : r \in { x \in queue : x.retry_count > 0 } \cup dlq }

C5_ServerOrder ==
    sy.pc = "settle" =>
       \A e \in Range(sy.todo) :
          e.status = "success" =>
             \A a \in FailedIntents :
                ( /\ a.task_id = CurBatch[e.k].task_id
                  /\ a.id < CurBatch[e.k].id
                  /\ a.created_at < CurBatch[e.k].created_at
                  /\ a.id \notin QueueIds(Range(CurBatch)) )
                   => a.id \in acked

(* C6: no sync_queue row has retry_count >= MAX_RETRIES; a failure that would
   bring a row to the bound puts it in the dead-letter store, and once
   handleSyncError is through the row is no longer in the queue. *)
Handling(s, id) ==
    /\ s.pc = "settle" /\ s.sub \in {2, 3}
    /\ s.todo[s.ti].status \in FailKinds
    /\ s.batches[s.bi][s.todo[s.ti].k].id = id

C6_RetryBound ==
    /\ \A r \in queue : r.retry_count < MAX_RETRIES
    /\ \A d \in dlq : d.retry_count + 1 >= MAX_RETRIES
    /\ \A id \in ItemIds, s \in {sy, parked.sy} :
          (Handling(s, id) /\ Exhausted(s.batches[s.bi][s.todo[s.ti].k]))
             => id \in QueueIds(dlq)
    /\ \A d \in dlq :
          d.id \in QueueIds(queue) => \E s \in {sy, parked.sy} : Handling(s, d.id)

C6_Witness ==
    /\ Quiescent
    /\ \E d \in dlq : d.id \notin QueueIds(queue) /\ d.retry_count = MAX_RETRIES - 1
    /\ \E r \in queue : r.retry_count = MAX_RETRIES - 1

(* C7: of two drained intents of one task with a.created_at < b.created_at, a
   stands before b in a batch that holds both, a's batch comes before b's
   otherwise, and b is not transmitted before a. *)
Positions ==
    UNION { { <<i, k>> : k \in DOMAIN sy.batches[i] } : i \in DOMAIN sy.batches }

C7_BatchOrder ==
    \A p, q \in Positions :
       LET a == sy.batches[p[1]][p[2]]
           b == sy.batches[q[1]][q[2]]
       IN (a.task_id = b.task_id /\ a.created_at < b.created_at) =>
             /\ p[1] < q[1] \/ (p[1] = q[1] /\ p[2] < q[2])
             /\ b.id \in sent => a.id \in sent

C7_Witness ==
    /\ sy.pc = "post" /\ sy.bi = 2 /\ Len(sy.batches) = 2
    /\ sy.batches[1][1].task_id = sy.batches[2][1].task_id
    /\ sy.batches[1][1].created_at < sy.batches[2][1].created_at
    /\ sy.batches[2][1].id \in sent

(* C8: a failed connectivity probe (of the route or of sync()) ends the call
   with tasks, sync_queue and dead-letter store as they were, no batch
   transmitted, and the result success=false, synced_items=0, failed_items=0
   with the connection error as its only error. *)
C8_OfflineNoEffect ==
    [][ (sy.pc \in {"route", "probe"} /\ sy'.pc = "done") =>
           /\ tasks' = tasks /\ queue' = queue /\ dlq' = dlq
           /\ sent' = sent /\ sent = {}
           /\ result'.success = FALSE
           /\ result'.synced_items = 0 /\ result'.failed_items = 0
           /\ Len(result'.errors) = 1
           /\ result'.errors[1].task_id = "connection" ]_vars

C8_Witness ==
    /\ sy.pc = "done" /\ ~result.success
    /\ Len(result.errors) = 1 /\ result.errors[1].task_id = "connection"
    /\ \E r \in queue : tasks[r.task_id].sync_status = "pending"

(* C9: when the cycle has settled a conflict outcome, the task row carries the
   title, description, completed and updated_at of the winning snapshot, its
   sync_status is synced and the queue row is gone. *)
C9_WinnerPersisted ==
    [][ (sy.pc = "settle" /\ sy.sub = 2 /\ CurKind = "conflict" /\ sy' # sy) =>
           LET row == tasks'[CurItem.task_id]
           IN /\ row.title = sy.win.title
              /\ row.description = sy.win.description
              /\ row.completed = Bit(sy.win.completed)
              /\ row.updated_at = sy.win.updated_at
              /\ row.sync_status = "synced"
              /\ CurItem.id \notin QueueIds(queue') ]_vars

(* C10: resolveConflict returns the local snapshot exactly when its
   updated_at is strictly greater than the server's, and the server snapshot
   otherwise, whatever the other fields are. *)
C10_ConflictDeterminism ==
    fout # << >> =>
       /\ fout[1] = IF fin[1].updated_at > fin[2].updated_at THEN fin[1] ELSE fin[2]
       /\ (fout[1] = fin[1]) <=> (fin[1].updated_at > fin[2].updated_at)

C10_Witness ==
    /\ fout # << >>
    /\ fin[1].updated_at = fin[2].updated_at
    /\ fout[1] = fin[2] /\ fin[1].title # fin[2].title

(* C11: while handleSyncError works on an item whose retries are exhausted,
   the item is in sync_queue or in the dead-letter store in every state; the
   handler deletes it from sync_queue only when its record is already in the
   dead-letter store; dead-letter records are never removed, and an id that
   is in the dead-letter store and no longer in sync_queue never enters
   sync_queue again. *)
ExhaustedHandling == sy.pc = "settle" /\ CurKind \in FailKinds /\ Exhausted(CurItem)

C11_DeadLetterMove ==
    /\ [](ExhaustedHandling => CurItem.id \in QueueIds(queue) \cup QueueIds(dlq))
    /\ [][ /\ \A r \in queue :
                 (ExhaustedHandling /\ r.id = CurItem.id /\ r.id \notin QueueIds(queue'))
                    => r.id \in QueueIds(dlq)
           /\ \A d \in dlq : d \in dlq'
           /\ \A d \in dlq : d.id \notin QueueIds(queue) => d.id \notin QueueIds(queue')
         ]_vars

(* C12: when handleSyncError is through with an item that had failed
   retry_count times before, then below the bound the item is in sync_queue
   with retry_count one higher and the error of this cycle stored, and its
   task is in sync_status error; at the bound (the MAX_RETRIES-th failure) the
   item is absent from sync_queue, in the dead-letter store with this cycle's
   error as final_error_message, and its task is in sync_status failed. *)
HandlerEnds == sy.pc = "settle" /\ CurKind \in FailKinds /\ sy.sub >= 2 /\ sy' # sy

C12_ExhaustionAtBound ==
    [][ HandlerEnds =>
          LET item == CurItem
              status == tasks'[item.task_id].sync_status
          IN IF item.retry_count + 1 < MAX_RETRIES
             THEN /\ \E r \in queue' :
                       /\ r.id = item.id
                       /\ r.retry_count = item.retry_count + 1
                       /\ r.error_message = sy.msg
                  /\ status = "error"
             ELSE sy.sub = 3 =>
                  /\ item.id \notin QueueIds(queue')
                  /\ \E d \in dlq' : d.id = item.id /\ d.final_error_message = sy.msg
                  /\ status = "failed"
      ]_vars

(* C13: once a task is in sync_status failed, no step of a sync cycle changes
   its sync_status. *)
C13_FailedTerminal ==
    [][ \A t \in DOMAIN tasks :
          (tasks[t].sync_status = "failed" /\ sy.pc # "idle")
             => tasks'[t].sync_status = "failed" ]_vars

(* C14: an intent is enqueued only by a call whose statement on tasks matched
   a row, and while a call is between its row mutation and its enqueue no
   other call runs a store call (which would see the mutated row without its
   queue item). *)
MidMutation(c) == calls[c].pc = "enq" /\ calls[c].changed

OtherStoreStep(c) ==
    /\ calls'[c] = calls[c]
    /\ ~ \E d \in DOMAIN calls :
            calls[d].pc = "idle" /\ calls'[d].pc = "row" /\ calls'[d].op = "create"

C14_AtomicMutation ==
    [][ \A c \in DOMAIN calls :
          /\ (calls[c].pc = "enq" /\ calls'[c].pc = "idle") => calls[c].changed
          /\ MidMutation(c) => ~OtherStoreStep(c) ]_vars

(* C15: whatever path sync() returns on (failed probe, empty queue, end of the
   batches, caught store failure), the result has success = TRUE exactly when
   its errors list is empty. *)
C15_SuccessIffNoErrors ==
    sy.pc = "done" => (result.success <=> (result.errors = << >>))

C15_Witness ==
    /\ sy.pc = "done"
    /\ result.synced_items > 0
    /\ ~result.success
    /\ \E i \in DOMAIN result.errors : result.errors[i].task_id = "sync_service"

(* C16: a rejected store call ends the cycle with success = FALSE and a
   sync_service error in the result; it never sends the items of the batch
   through handleSyncError as a failed request does. *)
HasError(res, message) == \E i \in DOMAIN res.errors : res.errors[i].error = message

C16_StoreFailureFatal ==
    /\ ~(sy.pc = "settle" /\ CurKind = "store")
    /\ (sy.pc = "done" /\ HasError(result, StoreErr)) =>
          /\ ~result.success
          /\ \E i \in DOMAIN result.errors : result.errors[i].task_id = "sync_service"

(* C17: from the step of deleteTask that soft-deletes the row on, getTask of
   the id returns null and getAllTasks leaves the task out, while
   getTasksNeedingSync returns it as long as its sync_status is pending or
   error. *)
Listed(lists, id) == \A s \in lists : \E i \in DOMAIN s : s[i].id = id
Omitted(lists, id) == \A s \in lists : \A i \in DOMAIN s : s[i].id # id

DeletedView(id) ==
    /\ getTask(id) = Null
    /\ Omitted(getAllTasks, id)
    /\ tasks[id].sync_status \in {"pending", "error"} => Listed(getTasksNeedingSync, id)

C17_SoftDeleteVisibility ==
    [][ \A id \in DOMAIN tasks :
          tasks[id].is_deleted = 1 => DeletedView(id) /\ DeletedView(id)' ]_vars

C17_Witness ==
    /\ fout = << [ op |-> "delete", id |-> "t1", value |-> "true" ] >>
    /\ tasks["t1"].is_deleted = 1 /\ tasks["t1"].sync_status = "pending"
    /\ \E c \in DOMAIN calls : calls[c].op = "update" /\ calls[c].id = "t1"

(* C18: updateTask returns null and deleteTask returns false exactly when the
   task is missing or soft-deleted at their getTask, and the returning step
   changes no task row, adds no sync_queue row and leaves no statement
   pending; a call that goes on to its UPDATE found a live row. *)
Gone(id) == id \notin DOMAIN tasks \/ tasks[id].is_deleted = 1

C18_MissingTask ==
    [][ /\ (fout' # << >> /\ fout'[1].value \in {"null", "false"}) =>
              /\ Gone(fout'[1].id)
              /\ fout'[1].value = (IF fout'[1].op = "update" THEN "null" ELSE "false")
              /\ tasks' = tasks /\ queue' = queue /\ calls' = calls
        /\ \A c \in DOMAIN calls :
              (calls[c].pc = "idle" /\ calls'[c].pc = "row" /\ calls'[c].op # "create")
                 => ~Gone(calls'[c].id)
      ]_vars

C18_Witness ==
    /\ fout = << [ op |-> "delete", id |-> "t1", value |-> "false" ] >>
    /\ tasks["t1"].is_deleted = 1
    /\ queue # {}

(* C19: handling a success entry sets the task to synced, last_synced_at to
   the time at which updateSyncStatus was entered and server_id to the one of
   the entry when it carries a non-empty one (and leaves it otherwise); and a
   cycle in which every response listed one outcome per transmitted item and
   acknowledged it returns success = TRUE, synced_items = the number of
   transmitted items and failed_items = 0, with every task of a transmitted
   item in sync_status synced, last_synced_at set and no sync_queue row. *)
AllItems(batches) == UNION { Range(batches[i]) : i \in DOMAIN batches }

C19_SuccessOutcome ==
    [][ /\ (sy.pc = "settle" /\ sy.sub = 1 /\ CurKind = "success" /\ sy'.sub = 2) =>
              LET t == CurItem.task_id
              IN /\ tasks'[t].sync_status = "synced"
                 /\ tasks'[t].last_synced_at = sy.now /\ sy.now \in Times
                 /\ tasks'[t].server_id =
                       (IF sy'.win.server_id \notin {Absent, ""} THEN sy'.win.server_id
                        ELSE tasks[t].server_id)
        /\ (sy.batches # << >> /\ sy'.pc = "done"
              /\ \A x \in AllItems(sy.batches) : x.id \in acked') =>
              /\ result'.success
              /\ result'.synced_items = Cardinality(AllItems(sy.batches))
              /\ result'.failed_items = 0
              /\ \A x \in AllItems(sy.batches) :
                    /\ tasks'[x.task_id].sync_status = "synced"
                    /\ tasks'[x.task_id].last_synced_at \in Times
                    /\ \A r \in queue' : r.task_id # x.task_id
      ]_vars

C19_Witness ==
    /\ sy.pc = "done"
    /\ result.success /\ result.synced_items = 2 /\ result.failed_items = 0
    /\ Cardinality(sent) = 2 /\ sent \subseteq acked
    /\ queue = {}
    /\ \E t \in DOMAIN tasks : tasks[t].sync_status = "synced" /\ tasks[t].server_id = "s1"

(* C20: after a batch request has failed, handleSyncError runs once for each
   item of the batch, in batch order; when it is through with an item, the
   item's sync_queue row has retry_count one higher or the item is in the
   dead-letter store, failed_items is one higher and one error entry with the
   request's error has been added for the item; and a cycle ends only after
   every batch has been transmitted. *)
C20_TransportFailure ==
    [][ /\ (sy.pc = "reset" /\ sy'.pc = "settle") =>
              /\ Len(sy'.todo) = Len(CurBatch)
              /\ \A k \in DOMAIN sy'.todo :
                    sy'.todo[k].k = k /\ sy'.todo[k].status = "transport"
        /\ (HandlerEnds /\ CurKind = "transport"
               /\ (Exhausted(CurItem) => sy.sub = 3)) =>
              LET item == CurItem
              IN /\ \/ \E r \in queue' :
                          r.id = item.id /\ r.retry_count = item.retry_count + 1
                    \/ item.id \in QueueIds(dlq')
                 /\ result'.failed_items = result.failed_items + 1
                 /\ result'.errors =
                       Append(result.errors, ItemError(item, TransportErr))
        /\ (sy.batches # << >> /\ sy'.pc = "done") =>
              \A x \in AllItems(sy.batches) : x.id \in sent'
      ]_vars

(* C21: while an error entry of the response is handled, every sync_queue row
   of another item stays as it is, the item's own row changes in retry_count
   and error_message only (or is removed), only a record of the item enters
   the dead-letter store, every other task row stays as it is and the item's
   own task row changes in sync_status only; when the handler is through, the
   next entry of the response, or the next batch, or the end of the cycle
   follows. *)
C21_ErrorIsolation ==
    [][ (sy.pc = "settle" /\ CurKind = "error") =>
          LET item == CurItem
          IN /\ \A r \in queue : r.id # item.id => r \in queue'
             /\ \A r \in queue' :
                   \/ r \in queue
                   \/ /\ r.id = item.id
                      /\ \E o \in queue :
                            r = [ o EXCEPT !.retry_count = r.retry_count,
                                           !.error_message = r.error_message ]
             /\ \A d \in dlq' \ dlq : d.id = item.id
             /\ dlq \subseteq dlq'
             /\ DOMAIN tasks' = DOMAIN tasks
             /\ \A t \in DOMAIN tasks :
                   IF t = item.task_id
                   THEN tasks'[t] = [ tasks[t] EXCEPT !.sync_status = tasks'[t].sync_status ]
                   ELSE tasks'[t] = tasks[t]
             /\ HandlerEnds /\ (Exhausted(item) => sy.sub = 3) =>
                   IF sy.ti < Len(sy.todo)
                   THEN sy'.pc = "settle" /\ sy'.ti = sy.ti + 1 /\ sy'.bi = sy.bi
                   ELSE IF sy.bi < Len(sy.batches)
                        THEN sy'.pc = "mark" /\ sy'.bi = sy.bi + 1
                        ELSE sy'.pc = "done"
      ]_vars

C21_Witness ==
    /\ sy.pc = "settle" /\ sy.sub = 1 /\ sy.ti = 2
    /\ sy.todo[1].k = 1 /\ sy.todo[2].k = 2
    /\ sy.todo[1].status = "error" /\ sy.todo[2].status = "success"
    /\ CurBatch[1].task_id = CurBatch[2].task_id
    /\ \E r \in queue : r.id = CurBatch[1].id /\ r.retry_count = 1
    /\ \E r \in queue : r.id = CurBatch[2].id /\ r.retry_count = 0

(* C22: the batches made of a drained queue are non-empty and hold at most
   BATCH_SIZE items each; together they hold every drained item exactly once;
   in their concatenation the items of a task are contiguous and in
   created_at order; and one task with a create, an update and a delete
   created in that order gives, with BATCH_SIZE 2, the batches
   [create, update] and [delete]. *)
Ops(batch) == [ i \in DOMAIN batch |-> batch[i].operation ]

C22_BatchPacking ==
    fout # << >> =>
       LET items == fout[1]
           batches == fout[2]
           flat == Flatten(batches)
       IN /\ \A i \in DOMAIN batches :
                Len(batches[i]) >= 1 /\ Len(batches[i]) <= batchSize
          /\ Len(flat) = Len(items)
          /\ Range(flat) = Range(items)
          /\ \A i, j, k \in DOMAIN flat :
                (i < j /\ j < k /\ flat[i].task_id = flat[k].task_id)
                   => flat[j].task_id = flat[i].task_id
          /\ \A i, j \in DOMAIN flat :
                (i < j /\ flat[i].task_id = flat[j].task_id)
                   => flat[i].created_at <= flat[j].created_at
          /\ ( /\ batchSize = 2 /\ Len(items) = 3
               /\ \A i \in DOMAIN items : items[i].task_id = items[1].task_id
               /\ \A x, y \in Range(items) : x.id < y.id => x.created_at < y.created_at )
                => /\ Len(batches) = 2
                   /\ Ops(batches[1]) = << "create", "update" >>
                   /\ Ops(batches[2]) = << "delete" >>

C22_Witness ==
    /\ fout # << >>
    /\ batchSize = 2 /\ Len(fout[1]) = 3
    /\ \A i \in DOMAIN fout[1] : fout[1][i].task_id = "t1"
    /\ \A x, y \in Range(fout[1]) : x.id < y.id => x.created_at < y.created_at
    /\ Len(fout[2]) = 2 /\ Len(fout[2][2]) = 1

(* C23: every item in sync_queue is eventually out of it, acknowledged by the
   server or in the dead-letter store; and no row stays in the queue through
   MAX_RETRIES failed transmissions. *)
C23_EventualDrain ==
    /\ \A id \in ItemIds :
          (id \in QueueIds(queue)) ~>
             (id \notin QueueIds(queue) /\ (id \in acked \/ id \in QueueIds(dlq)))
    /\ [](\A r \in queue : r.retry_count < MAX_RETRIES)

(* C24: when a batch request is about to be sent, the task of every item of
   the batch is in sync_status in-progress; and when sync() has returned, no
   task is in sync_status in-progress. *)
C24_InProgressBrackets ==
    /\ sy.pc = "post" =>
          \A x \in Range(CurBatch) : tasks[x.task_id].sync_status = "in-progress"
    /\ sy.pc = "done" =>
          \A t \in DOMAIN tasks : tasks[t].sync_status # "in-progress"

C24_Witness ==
    /\ sy.pc = "done"
    /\ Cardinality(sent) = 2
    /\ result.failed_items = 1 /\ result.synced_items = 1
    /\ \E t \in DOMAIN tasks : tasks[t].sync_status = "error"
    /\ \E t \in DOMAIN tasks : tasks[t].sync_status = "synced"

====
